---- MODULE Spec2Model ----
(***************************************************************************)
(* config-hub: the configuration release and propagation engine.           *)
(*                                                                         *)
(* The model follows the Go services request by request.  Every request    *)
(* runs on its own goroutine, and every repository call is one statement   *)
(* against the relational store, so a handler is a sequence of steps, one  *)
(* per store access, that interleave with the steps of the other requests. *)
(* No service opens a transaction or takes a lock around its store calls;  *)
(* the only lock is the RWMutex of NotificationService.                    *)
(***************************************************************************)
EXTENDS Integers, Sequences, FiniteSets, TLC

(***************************************************************************)
(* Bounds of the model.                                                    *)
(***************************************************************************)
NumProcs == 2      \* concurrent requests in flight
NumDocs == 2       \* configuration documents
MaxVersion == 3    \* highest version number a document is driven to
MaxFaults == 1     \* store I/O failures injected in one behaviour
MaxReleases == 3   \* rows of the releases table

Procs == 1..NumProcs
Docs == 1..NumDocs

\* the document the version-store requests address
StoreDocs == {1}

VARIABLES
    configs,       \* table configs: document id -> row
    versions,      \* table config_versions: document id -> rows in id order
    releases,      \* table releases: sequence of rows, in released_at order
    subscribers,   \* NotificationService.subscribers: client id -> channel
    pc,            \* position of each request in its handler
    loc,           \* local variables of each request
    resp,          \* the last response each caller received
    faults         \* store failures injected so far

vars == <<configs, versions, releases, subscribers, pc, loc, resp, faults>>

(***************************************************************************)
(* Request payloads.                                                       *)
(***************************************************************************)
Contents == {"{}", "{\"k\":1}", "{"}
FileTypes == {"json", "yaml", "toml"}

\* encoding/json.Valid on the payloads of the model
JsonValid(content) == content \in {"{}", "{\"k\":1}"}

\* yaml.Unmarshal followed by json.Marshal on the payloads of the model:
\* a flow mapping is re-encoded as the same JSON object, "{" does not parse
YamlValid(content) == content \in {"{}", "{\"k\":1}"}
YamlToJson(content) == content

\* sha256 of the content, hex, first 16 characters
generateHash(content) ==
    CASE content = "{}" -> "44136fa355b3678a"
      [] content = "{\"k\":1}" -> "a0da1fce57d0e4f9"
      [] content = "{" -> "021fb596db81e6d0"
      [] content = "{\n  \"k\": 1\n}" -> "27b0a6ea696a342e"
      [] OTHER -> "e3b0c44298fc1c14"

GenerateHash(content) == generateHash(content)

(***************************************************************************)
(* Rows and records.                                                       *)
(***************************************************************************)
NoConfig == [exists |-> FALSE, FileType |-> "", CurrentVersion |-> 0]

\* gray_rules as stored: the JSON object json.Marshal writes for GrayRules
NoRules == [type |-> "none"]

NoRelease == [ConfigID |-> 0, Version |-> 0, Environment |-> "",
              Status |-> "", ReleaseType |-> "", GrayRules |-> NoRules,
              GrayPercentage |-> 0]

\* the credentials of a request: the Authorization bearer token, the
\* X-Access-Key header, c.ClientIP() and time.Now() when it arrives
\* and its X-Signature, X-Timestamp and X-Nonce headers
NoSignature == [secret |-> "", text |-> <<>>]
NoAuth == [bearer |-> "", accessKey |-> "", ip |-> <<0, 0, 0, 0>>, now |-> 0,
           signature |-> NoSignature, timestamp |-> 0, nonce |-> ""]

NoLoc == [op |-> "none", doc |-> 0, content |-> "", fileType |-> "",
          via |-> "", ver |-> 0, cv |-> 0, inserted |-> FALSE,
          rid |-> 0, rel |-> NoRelease, pct |-> 0, auth |-> NoAuth]

NoResp == [op |-> "none", doc |-> 0, status |-> "none", err |-> "",
           version |-> 0, content |-> "", inserted |-> FALSE, cause |-> ""]

\* handleServiceError: the outcome the caller gets for a service error
handleServiceError(err) ==
    CASE err \in {"ErrConfigNotFound", "ErrVersionNotFound",
                  "ErrReleaseNotFound"} -> "not_found"
      [] err = "ErrConfigNameExists" -> "conflict"
      [] err \in {"ErrInvalidJSON", "ErrInvalidYAML",
                  "ErrInvalidFileType"} -> "validation_error"
      [] OTHER -> "internal_error"

\* the response of a request that ended with a service error
Failed(op, d, err) ==
    [NoResp EXCEPT !.op = op, !.doc = d, !.err = err,
                   !.status = handleServiceError(err)]

ErrResp(p, err) ==
    [Failed(loc[p].op, loc[p].doc, err) EXCEPT !.inserted = loc[p].inserted]

(***************************************************************************)
(* Repositories.                                                           *)
(***************************************************************************)
Range(f) == {f[i] : i \in DOMAIN f}

VersionsOf(d) == Range(versions[d])

VersionNumbers(d) == {v.Version : v \in VersionsOf(d)}

\* VersionRepository.GetByConfigAndVersion: First() of the matching rows
HasVersion(d, n) == \E v \in VersionsOf(d) : v.Version = n
GetByConfigAndVersion(d, n) ==
    LET i == CHOOSE i \in DOMAIN versions[d] :
                 /\ versions[d][i].Version = n
                 /\ \A j \in 1..(i - 1) : versions[d][j].Version # n
    IN  versions[d][i]

\* VersionRepository.GetLatest: ORDER BY version DESC, first row
HasLatest(d) == versions[d] # <<>>
GetLatest(d) ==
    LET i == CHOOSE i \in DOMAIN versions[d] :
                 /\ \A j \in DOMAIN versions[d] :
                        versions[d][j].Version <= versions[d][i].Version
                 /\ \A j \in 1..(i - 1) :
                        versions[d][j].Version < versions[d][i].Version
    IN  versions[d][i]

\* the table without its unique key: every insert is accepted
VersionUniqueDropped(d, row) == TRUE

\* UNIQUE (config_id, version) of table config_versions
VersionUnique(d, row) == ~HasVersion(d, row.Version)

\* VersionRepository.Create: the insert is refused on a duplicate key
VersionRepoCreate(d, row) ==
    /\ VersionUnique(d, row)
    /\ versions' = [versions EXCEPT ![d] = Append(@, row)]

\* ConfigRepository.Update: Save writes the row the caller holds
ConfigRepoUpdate(d, currentVersion) ==
    configs' = [configs EXCEPT ![d].CurrentVersion = currentVersion]

\* a store call fails with an I/O error
StoreFault ==
    /\ faults < MaxFaults
    /\ faults' = faults + 1

(***************************************************************************)
(* Leaving a handler.                                                      *)
(***************************************************************************)
Finish(p, r) ==
    /\ pc' = [pc EXCEPT ![p] = "idle"]
    /\ loc' = [loc EXCEPT ![p] = NoLoc]
    /\ resp' = [resp EXCEPT ![p] = r]

\* a request arrives: the caller's previous response is history
Begin(p, label, l) ==
    /\ pc' = [pc EXCEPT ![p] = label]
    /\ loc' = [loc EXCEPT ![p] = l]
    /\ resp' = [resp EXCEPT ![p] = NoResp]

Goto(p, label, l) ==
    /\ pc' = [pc EXCEPT ![p] = label]
    /\ loc' = [loc EXCEPT ![p] = l]
    /\ UNCHANGED resp

\* requests that hold a version number they are about to insert
Writers(d) ==
    {q \in Procs : loc[q].doc = d /\ loc[q].op \in {"update", "rollback"}}

\* the cap on version numbers
MayAppend(d) ==
    configs[d].CurrentVersion + Cardinality(Writers(d)) < MaxVersion

(***************************************************************************)
(* ConfigService.Upload                                                    *)
(***************************************************************************)
UploadStart(p, d, ft, c) ==
    /\ pc[p] = "idle"
    /\ UNCHANGED <<configs, versions, releases, subscribers, faults>>
    /\ LET l == [NoLoc EXCEPT !.op = "upload", !.doc = d, !.fileType = ft]
       IN  IF ft \notin {"json", "yaml", "protobuf"}
           THEN Finish(p, Failed("upload", d, "ErrInvalidFileType"))
           ELSE IF ft = "json" /\ ~JsonValid(c)
           THEN Finish(p, Failed("upload", d, "ErrInvalidJSON"))
           ELSE IF ft = "yaml" /\ ~YamlValid(c)
           THEN Finish(p, Failed("upload", d, "ErrInvalidYAML"))
           ELSE Begin(p, "upl_check",
                     [l EXCEPT !.content = IF ft = "yaml" THEN YamlToJson(c) ELSE c])

UploadCheck(p) ==
    /\ pc[p] = "upl_check"
    /\ UNCHANGED <<configs, versions, releases, subscribers, faults>>
    /\ IF configs[loc[p].doc].exists
       THEN Finish(p, ErrResp(p, "ErrConfigNameExists"))
       ELSE Goto(p, "upl_config", loc[p])

UploadCreateConfig(p) ==
    /\ pc[p] = "upl_config"
    /\ UNCHANGED <<versions, releases, subscribers>>
    /\ \/ /\ ~configs[loc[p].doc].exists
          /\ configs' = [configs EXCEPT ![loc[p].doc] =
                 [exists |-> TRUE, FileType |-> loc[p].fileType,
                  CurrentVersion |-> 1]]
          /\ Goto(p, "upl_version", loc[p])
          /\ UNCHANGED faults
       \/ /\ configs[loc[p].doc].exists
          /\ Finish(p, ErrResp(p, "duplicate key"))
          /\ UNCHANGED <<configs, faults>>
       \/ /\ StoreFault
          /\ Finish(p, ErrResp(p, "store error"))
          /\ UNCHANGED configs

UploadCreateVersion(p) ==
    LET row == [Version |-> 1, Content |-> loc[p].content,
                CommitHash |-> generateHash(loc[p].content)]
    IN  /\ pc[p] = "upl_version"
        /\ UNCHANGED <<configs, releases, subscribers>>
        /\ \/ /\ VersionRepoCreate(loc[p].doc, row)
              /\ Finish(p, [NoResp EXCEPT !.op = "upload", !.doc = loc[p].doc,
                                !.status = "ok", !.version = 1,
                                !.inserted = TRUE])
              /\ UNCHANGED faults
           \/ /\ ~VersionUnique(loc[p].doc, row)
              /\ Finish(p, ErrResp(p, "duplicate key"))
              /\ UNCHANGED <<versions, faults>>
           \/ /\ StoreFault
              /\ Finish(p, ErrResp(p, "store error"))
              /\ UNCHANGED versions

(***************************************************************************)
(* ConfigService.Update, called by PUT /api/v1/config (via = "public",     *)
(* which then notifies) and by PUT /api/configs/:id (via = "admin").       *)
(***************************************************************************)
UpdateStart(p, d, c, via) ==
    /\ pc[p] = "idle"
    /\ MayAppend(d)
    /\ Begin(p, "upd_read", [NoLoc EXCEPT !.op = "update", !.doc = d,
                                         !.content = c, !.via = via])
    /\ UNCHANGED <<configs, versions, releases, subscribers, faults>>

UpdateRead(p) ==
    /\ pc[p] = "upd_read"
    /\ UNCHANGED <<configs, versions, releases, subscribers, faults>>
    /\ LET config == configs[loc[p].doc]
       IN  IF ~config.exists
           THEN Finish(p, ErrResp(p, "ErrConfigNotFound"))
           ELSE IF config.FileType = "json" /\ ~JsonValid(loc[p].content)
           THEN Finish(p, ErrResp(p, "ErrInvalidJSON"))
           ELSE Goto(p, "upd_insert", [loc[p] EXCEPT !.cv = config.CurrentVersion])

\* versionRepo.Create of the version numbered config.CurrentVersion + 1
AppendVersion(p, next) ==
    LET row == [Version |-> loc[p].cv + 1, Content |-> loc[p].content,
                CommitHash |-> generateHash(loc[p].content)]
    IN  /\ UNCHANGED <<configs, releases, subscribers>>
        /\ \/ /\ VersionRepoCreate(loc[p].doc, row)
              /\ Goto(p, next, [loc[p] EXCEPT !.inserted = TRUE])
              /\ UNCHANGED faults
           \/ /\ ~VersionUnique(loc[p].doc, row)
              /\ Finish(p, ErrResp(p, "duplicate key"))
              /\ UNCHANGED <<versions, faults>>
           \/ /\ StoreFault
              /\ Finish(p, ErrResp(p, "store error"))
              /\ UNCHANGED versions

OkAppendResp(p) ==
    [NoResp EXCEPT !.op = loc[p].op, !.doc = loc[p].doc, !.status = "ok",
                   !.version = loc[p].cv + 1, !.content = loc[p].content,
                   !.inserted = TRUE]

UpdateInsert(p) ==
    /\ pc[p] = "upd_insert"
    /\ AppendVersion(p, "upd_save")

UpdateSave(p) ==
    /\ pc[p] = "upd_save"
    /\ UNCHANGED <<versions, releases, subscribers>>
    /\ \/ /\ ConfigRepoUpdate(loc[p].doc, loc[p].cv + 1)
          /\ IF loc[p].via = "public"
             THEN Goto(p, "upd_notify", loc[p])
             ELSE Finish(p, OkAppendResp(p))
          /\ UNCHANGED faults
       \/ /\ StoreFault
          /\ Finish(p, ErrResp(p, "store error"))
          /\ UNCHANGED configs

(***************************************************************************)
(* VersionService.Rollback                                                 *)
(***************************************************************************)
RollbackStart(p, d, n) ==
    /\ pc[p] = "idle"
    /\ MayAppend(d)
    /\ Begin(p, "rb_target", [NoLoc EXCEPT !.op = "rollback", !.doc = d, !.ver = n])
    /\ UNCHANGED <<configs, versions, releases, subscribers, faults>>

RollbackTarget(p) ==
    /\ pc[p] = "rb_target"
    /\ UNCHANGED <<configs, versions, releases, subscribers, faults>>
    /\ IF ~HasVersion(loc[p].doc, loc[p].ver)
       THEN Finish(p, ErrResp(p, "ErrVersionNotFound"))
       ELSE Goto(p, "rb_read",
                 [loc[p] EXCEPT !.content =
                      GetByConfigAndVersion(loc[p].doc, loc[p].ver).Content])

RollbackRead(p) ==
    /\ pc[p] = "rb_read"
    /\ UNCHANGED <<configs, versions, releases, subscribers, faults>>
    /\ IF ~configs[loc[p].doc].exists
       THEN Finish(p, ErrResp(p, "ErrConfigNotFound"))
       ELSE Goto(p, "rb_insert",
                 [loc[p] EXCEPT !.cv = configs[loc[p].doc].CurrentVersion])

RollbackInsert(p) ==
    /\ pc[p] = "rb_insert"
    /\ AppendVersion(p, "rb_save")

RollbackSave(p) ==
    /\ pc[p] = "rb_save"
    /\ UNCHANGED <<versions, releases, subscribers>>
    /\ \/ /\ ConfigRepoUpdate(loc[p].doc, loc[p].cv + 1)
          /\ Finish(p, OkAppendResp(p))
          /\ UNCHANGED faults
       \/ /\ StoreFault
          /\ Finish(p, ErrResp(p, "store error"))
          /\ UNCHANGED configs

(***************************************************************************)
(* PublicConfigHandler.Get with ConfigService.GetByAccessKey               *)
(***************************************************************************)
GetStart(p, d) ==
    /\ pc[p] = "idle"
    /\ Begin(p, "get_cfg", [NoLoc EXCEPT !.op = "get", !.doc = d])
    /\ UNCHANGED <<configs, versions, releases, subscribers, faults>>

GetConfig(p) ==
    /\ pc[p] = "get_cfg"
    /\ UNCHANGED <<configs, versions, releases, subscribers, faults>>
    /\ IF ~configs[loc[p].doc].exists
       THEN Finish(p, ErrResp(p, "ErrConfigNotFound"))
       ELSE Goto(p, "get_ver",
                 [loc[p] EXCEPT !.cv = configs[loc[p].doc].CurrentVersion])

GetVersion(p) ==
    /\ pc[p] = "get_ver"
    /\ UNCHANGED <<configs, versions, releases, subscribers, faults>>
    /\ Finish(p, [NoResp EXCEPT !.op = "get", !.doc = loc[p].doc,
                      !.status = "ok", !.version = loc[p].cv,
                      !.content = IF HasLatest(loc[p].doc)
                                  THEN GetLatest(loc[p].doc).Content ELSE ""])

(***************************************************************************)
(* NotificationService: one buffered channel per subscribed client.        *)
(***************************************************************************)
\* make(chan *ConfigChange, 10)
ChannelCap == 10

Subscribed == DOMAIN subscribers

\* NotificationService.Subscribe: configIDs is not stored
Subscribe(clientID, configIDs) ==
    subscribers' = [q \in Subscribed \cup {clientID} |->
                       IF q = clientID THEN <<>> ELSE subscribers[q]]

\* the entry is left in the table
UnsubscribeForgotten(clientID) == UNCHANGED subscribers

\* NotificationService.Unsubscribe
Unsubscribe(clientID) ==
    subscribers' = [q \in Subscribed \ {clientID} |-> subscribers[q]]

\* the send without the default branch: it waits until every channel has room
NotifyChangeBlocking(change) ==
    /\ \A q \in Subscribed : Len(subscribers[q]) < ChannelCap
    /\ subscribers' = [q \in Subscribed |-> Append(subscribers[q], change)]

\* NotificationService.NotifyChange: a send to every channel that has room
NotifyChange(change) ==
    subscribers' = [q \in Subscribed |->
                       IF Len(subscribers[q]) < ChannelCap
                       THEN Append(subscribers[q], change)
                       ELSE subscribers[q]]

\* PublicConfigHandler.Update after ConfigService.Update returned
UpdateNotify(p) ==
    /\ pc[p] = "upd_notify"
    /\ NotifyChange([ConfigID |-> loc[p].doc, Version |-> loc[p].cv + 1])
    /\ Finish(p, OkAppendResp(p))
    /\ UNCHANGED <<configs, versions, releases, faults>>

(***************************************************************************)
(* PublicConfigHandler.Watch                                               *)
(***************************************************************************)
\* the comparison off by one: equal-or-next counts as unchanged
HasChangedByTwo(latest, known) == latest > known + 1

\* version.Version > currentVersion
HasChanged(latest, known) == latest > known

WatchResp(p, status, cause) ==
    [NoResp EXCEPT !.op = "watch", !.doc = loc[p].doc, !.status = status,
                   !.cause = cause]

ChangedResp(p, cause) ==
    [WatchResp(p, "changed", cause) EXCEPT
        !.version = GetLatest(loc[p].doc).Version,
        !.content = GetLatest(loc[p].doc).Content]

\* GetByAccessKey, first read: the document row
WatchRead(p, d, known) ==
    /\ pc[p] = "idle"
    /\ UNCHANGED <<configs, versions, releases, subscribers, faults>>
    /\ IF ~configs[d].exists
       THEN Finish(p, [NoResp EXCEPT !.op = "watch", !.doc = d,
                                     !.status = "not_found"])
       ELSE Begin(p, "w_check", [NoLoc EXCEPT !.op = "watch", !.doc = d,
                                              !.ver = known])

\* GetByAccessKey, second read: the latest version; then the comparison
WatchCheck(p) ==
    /\ pc[p] = "w_check"
    /\ UNCHANGED <<configs, versions, releases, subscribers, faults>>
    /\ IF HasLatest(loc[p].doc)
          /\ HasChanged(GetLatest(loc[p].doc).Version, loc[p].ver)
       THEN Finish(p, ChangedResp(p, "immediate"))
       ELSE Goto(p, "w_subscribe", loc[p])

WatchSubscribe(p) ==
    /\ pc[p] = "w_subscribe"
    /\ Subscribe(p, {loc[p].doc})
    /\ Goto(p, "w_select", loc[p])
    /\ UNCHANGED <<configs, versions, releases, faults>>

\* case change := <-changeCh; a change of another document falls through
\* to the 304 at the end of the handler
WatchReceive(p) ==
    /\ pc[p] = "w_select"
    /\ subscribers[p] # <<>>
    /\ UNCHANGED <<configs, versions, releases, faults>>
    /\ IF Head(subscribers[p]).ConfigID = loc[p].doc
       THEN /\ subscribers' = [subscribers EXCEPT ![p] = Tail(@)]
            /\ Goto(p, "w_reread", loc[p])
       ELSE /\ Unsubscribe(p)
            /\ Finish(p, WatchResp(p, "not_modified", "other_document"))

\* the second GetByAccessKey, the answer and the deferred Unsubscribe
WatchReread(p) ==
    /\ pc[p] = "w_reread"
    /\ Unsubscribe(p)
    /\ UNCHANGED <<configs, versions, releases, faults>>
    /\ IF configs[loc[p].doc].exists /\ HasLatest(loc[p].doc)
       THEN Finish(p, ChangedResp(p, "notified"))
       ELSE Finish(p, WatchResp(p, "not_modified", "no_version"))

\* case <-time.After(timeout): taken by a call that nothing was sent to
WatchTimeout(p) ==
    /\ pc[p] = "w_select"
    /\ subscribers[p] = <<>>
    /\ Unsubscribe(p)
    /\ Finish(p, WatchResp(p, "not_modified", "timeout"))
    /\ UNCHANGED <<configs, versions, releases, faults>>

\* case <-c.Request.Context().Done(): the client went away, nothing is written
WatchDone(p) ==
    /\ pc[p] = "w_select"
    /\ Unsubscribe(p)
    /\ Finish(p, WatchResp(p, "none", "client_gone"))
    /\ UNCHANGED <<configs, versions, releases, faults>>

(***************************************************************************)
(* Releases.  Rows are kept in the order of their creation, which is the   *)
(* order of released_at and of the primary key.                            *)
(***************************************************************************)
Envs == {"dev", "prod"}

\* client identifiers and addresses, as sequences of characters and octets
App2 == <<"a", "p", "p", "-", "2">>
Web1 == <<"w", "e", "b", "-", "1">>
Web2 == <<"w", "e", "b", "-", "2">>
AppStar == <<"a", "p", "p", "-", "*">>

Callers == {[id |-> App2, ip |-> <<10, 0, 1, 7>>, name |-> "app-2"],
            [id |-> Web1, ip |-> <<10, 0, 0, 1>>, name |-> "web-1"],
            [id |-> Web2, ip |-> <<10, 0, 0, 2>>, name |-> "web-2"]}

\* an entry of ip_ranges: an address, or address/bits when it holds a "/"
Addr(a) == [cidr |-> FALSE, addr |-> a, bits |-> 32]
Cidr(a, n) == [cidr |-> TRUE, addr |-> a, bits |-> n]

\* the rules a gray release is requested with
RuleRequests ==
    {[RuleType |-> "percentage", Percentage |-> 50,
      ClientIDs |-> <<>>, IPRanges |-> <<>>],
     [RuleType |-> "client_id", Percentage |-> 0,
      ClientIDs |-> <<Web1, AppStar>>, IPRanges |-> <<>>],
     [RuleType |-> "ip_range", Percentage |-> 0,
      ClientIDs |-> <<>>,
      IPRanges |-> <<Addr(<<10, 0, 0, 1>>), Cidr(<<10, 0, 1, 0>>, 24)>>]}

Percentages == {0, 100}

\* json.Marshal of GrayRules: the omitempty fields are left out when empty
MarshalRules(rules) ==
    LET keys == {"type"}
                \cup (IF rules.Percentage # 0 THEN {"percentage"} ELSE {})
                \cup (IF rules.ClientIDs # <<>> THEN {"client_ids"} ELSE {})
                \cup (IF rules.IPRanges # <<>> THEN {"ip_ranges"} ELSE {})
    IN  [k \in keys |->
            CASE k = "type" -> rules.Type
              [] k = "percentage" -> rules.Percentage
              [] k = "client_ids" -> rules.ClientIDs
              [] k = "ip_ranges" -> rules.IPRanges]

\* json.Unmarshal into GrayRules: absent fields keep their zero value.
\* The column of a full release is empty, which does not parse.
UnmarshalOk(json) == json # NoRules
UnmarshalRules(json) ==
    [Type |-> IF UnmarshalOk(json) THEN json.type ELSE "",
     Percentage |-> IF "percentage" \in DOMAIN json THEN json.percentage ELSE 0,
     ClientIDs |-> IF "client_ids" \in DOMAIN json THEN json.client_ids ELSE <<>>,
     IPRanges |-> IF "ip_ranges" \in DOMAIN json THEN json.ip_ranges ELSE <<>>]

\* fnv.New32a over the client id, modulo 100
Fnv32aMod100(clientID) ==
    CASE clientID = App2 -> 35
      [] clientID = Web1 -> 55
      [] clientID = Web2 -> 74
      [] OTHER -> 61

\* the bucket test with its boundary included
matchPercentageInclusive(clientID, percentage) ==
    IF percentage <= 0 THEN FALSE
    ELSE IF percentage >= 100 THEN TRUE
    ELSE Fnv32aMod100(clientID) <= percentage

\* GrayReleaseService.matchPercentage
matchPercentage(clientID, percentage) ==
    IF percentage <= 0 THEN FALSE
    ELSE IF percentage >= 100 THEN TRUE
    ELSE Fnv32aMod100(clientID) < percentage

HasSuffixStar(id) == Len(id) > 0 /\ id[Len(id)] = "*"
HasPrefix(str, prefix) ==
    Len(prefix) <= Len(str) /\ SubSeq(str, 1, Len(prefix)) = prefix

\* GrayReleaseService.matchClientID
matchClientID(clientID, allowedIDs) ==
    \E i \in DOMAIN allowedIDs :
        \/ allowedIDs[i] = clientID
        \/ /\ HasSuffixStar(allowedIDs[i])
           /\ HasPrefix(clientID, SubSeq(allowedIDs[i], 1, Len(allowedIDs[i]) - 1))

\* the leading bits of an address, for the masks of the model (/8 ... /32)
AddrNum(a) == ((a[1] * 256 + a[2]) * 256 + a[3]) * 256 + a[4]
NetContains(net, ip) ==
    AddrNum(net.addr) \div (2 ^ (32 - net.bits)) = AddrNum(ip) \div (2 ^ (32 - net.bits))

\* GrayReleaseService.matchIPRange
matchIPRange(clientIP, ipRanges) ==
    \E i \in DOMAIN ipRanges :
        IF ipRanges[i].cidr
        THEN NetContains(ipRanges[i], clientIP)
        ELSE ipRanges[i].addr = clientIP

ReleaseIDs == DOMAIN releases

\* ReleaseRepository.GetByID
HasRelease(id) == id \in ReleaseIDs

\* ReleaseRepository.GetActiveGrayRelease: First() of the gray rows
GrayIDs(d, env) ==
    {i \in ReleaseIDs : /\ releases[i].ConfigID = d
                        /\ releases[i].Environment = env
                        /\ releases[i].Status = "gray"}
HasActiveGrayRelease(d, env) == GrayIDs(d, env) # {}
GetActiveGrayRelease(d, env) ==
    releases[CHOOSE i \in GrayIDs(d, env) : \A j \in GrayIDs(d, env) : i <= j]

\* ReleaseRepository.GetByConfigAndEnv: status released or gray,
\* ORDER BY released_at DESC, first row
CurrentIDs(d, env) ==
    {i \in ReleaseIDs : /\ releases[i].ConfigID = d
                        /\ releases[i].Environment = env
                        /\ releases[i].Status \in {"released", "gray"}}
HasCurrentRelease(d, env) == CurrentIDs(d, env) # {}
GetByConfigAndEnv(d, env) ==
    releases[CHOOSE i \in CurrentIDs(d, env) : \A j \in CurrentIDs(d, env) : j <= i]

\* ReleaseRepository.Create
ReleaseRepoCreate(row) == releases' = Append(releases, row)

\* ReleaseRepository.Update: Save writes the whole row the caller holds
ReleaseRepoUpdate(id, row) == releases' = [releases EXCEPT ![id] = row]

\* GrayReleaseService.ShouldUseGrayRelease
ShouldUseGrayRelease(d, env, clientID, clientIP) ==
    /\ HasActiveGrayRelease(d, env)
    /\ UnmarshalOk(GetActiveGrayRelease(d, env).GrayRules)
    /\ LET rules == UnmarshalRules(GetActiveGrayRelease(d, env).GrayRules)
       IN  CASE rules.Type = "percentage" ->
                    matchPercentage(clientID, rules.Percentage)
             [] rules.Type = "client_id" ->
                    matchClientID(clientID, rules.ClientIDs)
             [] rules.Type = "ip_range" ->
                    matchIPRange(clientIP, rules.IPRanges)
             [] OTHER -> FALSE

\* requests that are about to insert a release row
Releasers ==
    {q \in Procs : loc[q].op \in {"release", "gray", "promote", "release_rollback"}}

\* the cap on the releases table
MayRelease == Len(releases) + Cardinality(Releasers) < MaxReleases

(***************************************************************************)
(* ReleaseService.Create                                                   *)
(***************************************************************************)
ReleaseCreateCheck(p, d, env, n) ==
    /\ pc[p] = "idle"
    /\ MayRelease
    /\ UNCHANGED <<configs, versions, releases, subscribers, faults>>
    /\ LET version == IF n = 0 THEN configs[d].CurrentVersion ELSE n
       IN  IF ~configs[d].exists
           THEN Finish(p, Failed("release", d, "ErrConfigNotFound"))
           ELSE IF ~HasVersion(d, version)
           THEN Finish(p, Failed("release", d, "ErrVersionNotFound"))
           ELSE Begin(p, "rel_insert",
                      [NoLoc EXCEPT !.op = "release", !.doc = d,
                           !.rel = [NoRelease EXCEPT
                                       !.ConfigID = d, !.Version = version,
                                       !.Environment = env,
                                       !.Status = "released",
                                       !.ReleaseType = "full"]])

ReleaseCreateInsert(p) ==
    /\ pc[p] = "rel_insert"
    /\ UNCHANGED <<configs, versions, subscribers>>
    /\ \/ /\ ReleaseRepoCreate(loc[p].rel)
          /\ Finish(p, [NoResp EXCEPT !.op = "release", !.doc = loc[p].doc,
                            !.status = "ok", !.version = loc[p].rel.Version])
          /\ UNCHANGED faults
       \/ /\ StoreFault
          /\ Finish(p, ErrResp(p, "store error"))
          /\ UNCHANGED releases

(***************************************************************************)
(* GrayReleaseService.Create                                               *)
(***************************************************************************)
GrayCreateCheck(p, d, env, n, req) ==
    /\ pc[p] = "idle"
    /\ MayRelease
    /\ UNCHANGED <<configs, versions, releases, subscribers, faults>>
    /\ LET version == IF n = 0 THEN configs[d].CurrentVersion ELSE n
           rules == [Type |-> req.RuleType, Percentage |-> req.Percentage,
                     ClientIDs |-> req.ClientIDs, IPRanges |-> req.IPRanges]
       IN  IF ~configs[d].exists
           THEN Finish(p, Failed("gray", d, "ErrConfigNotFound"))
           ELSE IF HasActiveGrayRelease(d, env)
           THEN Finish(p, Failed("gray", d, "ErrGrayReleaseActive"))
           ELSE IF ~HasVersion(d, version)
           THEN Finish(p, Failed("gray", d, "ErrVersionNotFound"))
           ELSE Begin(p, "gray_insert",
                      [NoLoc EXCEPT !.op = "gray", !.doc = d,
                           !.rel = [ConfigID |-> d, Version |-> version,
                                    Environment |-> env, Status |-> "gray",
                                    ReleaseType |-> "gray",
                                    GrayRules |-> MarshalRules(rules),
                                    GrayPercentage |-> req.Percentage]])

GrayCreateInsert(p) ==
    /\ pc[p] = "gray_insert"
    /\ UNCHANGED <<configs, versions, subscribers>>
    /\ \/ /\ ReleaseRepoCreate(loc[p].rel)
          /\ Finish(p, [NoResp EXCEPT !.op = "gray", !.doc = loc[p].doc,
                            !.status = "ok", !.version = loc[p].rel.Version])
          /\ UNCHANGED faults
       \/ /\ StoreFault
          /\ Finish(p, ErrResp(p, "store error"))
          /\ UNCHANGED releases

(***************************************************************************)
(* GrayReleaseService.Promote                                              *)
(***************************************************************************)
PromoteRead(p, id) ==
    /\ pc[p] = "idle"
    /\ MayRelease
    /\ UNCHANGED <<configs, versions, releases, subscribers, faults>>
    /\ IF ~HasRelease(id)
       THEN Finish(p, Failed("promote", 0, "ErrGrayReleaseNotFound"))
       ELSE IF releases[id].Status # "gray"
       THEN Finish(p, Failed("promote", releases[id].ConfigID, "only gray"))
       ELSE Begin(p, "pro_save",
                  [NoLoc EXCEPT !.op = "promote", !.doc = releases[id].ConfigID,
                                !.rid = id, !.rel = releases[id]])

PromoteSave(p) ==
    /\ pc[p] = "pro_save"
    /\ UNCHANGED <<configs, versions, subscribers>>
    /\ \/ /\ ReleaseRepoUpdate(loc[p].rid, [loc[p].rel EXCEPT !.Status = "promoted"])
          /\ Goto(p, "pro_create", loc[p])
          /\ UNCHANGED faults
       \/ /\ StoreFault
          /\ Finish(p, ErrResp(p, "store error"))
          /\ UNCHANGED releases

PromoteCreate(p) ==
    LET fullRelease == [NoRelease EXCEPT
                           !.ConfigID = loc[p].rel.ConfigID,
                           !.Version = loc[p].rel.Version,
                           !.Environment = loc[p].rel.Environment,
                           !.Status = "released", !.ReleaseType = "full"]
    IN  /\ pc[p] = "pro_create"
        /\ UNCHANGED <<configs, versions, subscribers>>
        /\ \/ /\ ReleaseRepoCreate(fullRelease)
              /\ Finish(p, [NoResp EXCEPT !.op = "promote", !.doc = loc[p].doc,
                                !.status = "ok", !.version = fullRelease.Version])
              /\ UNCHANGED faults
           \/ /\ StoreFault
              /\ Finish(p, ErrResp(p, "store error"))
              /\ UNCHANGED releases

(***************************************************************************)
(* GrayReleaseService.Cancel                                               *)
(***************************************************************************)
CancelRead(p, id) ==
    /\ pc[p] = "idle"
    /\ UNCHANGED <<configs, versions, releases, subscribers, faults>>
    /\ IF ~HasRelease(id)
       THEN Finish(p, Failed("cancel", 0, "ErrGrayReleaseNotFound"))
       ELSE IF releases[id].Status # "gray"
       THEN Finish(p, Failed("cancel", releases[id].ConfigID, "only gray"))
       ELSE Begin(p, "can_save",
                  [NoLoc EXCEPT !.op = "cancel", !.doc = releases[id].ConfigID,
                                !.rid = id, !.rel = releases[id]])

CancelSave(p) ==
    /\ pc[p] = "can_save"
    /\ UNCHANGED <<configs, versions, subscribers>>
    /\ \/ /\ ReleaseRepoUpdate(loc[p].rid, [loc[p].rel EXCEPT !.Status = "cancelled"])
          /\ Finish(p, [NoResp EXCEPT !.op = "cancel", !.doc = loc[p].doc,
                            !.status = "ok", !.version = loc[p].rel.Version])
          /\ UNCHANGED faults
       \/ /\ StoreFault
          /\ Finish(p, ErrResp(p, "store error"))
          /\ UNCHANGED releases

(***************************************************************************)
(* GrayReleaseService.UpdatePercentage                                     *)
(***************************************************************************)
UpdatePercentageRead(p, id, percentage) ==
    /\ pc[p] = "idle"
    /\ UNCHANGED <<configs, versions, releases, subscribers, faults>>
    /\ IF ~HasRelease(id)
       THEN Finish(p, Failed("percentage", 0, "ErrGrayReleaseNotFound"))
       ELSE IF releases[id].Status # "gray"
       THEN Finish(p, Failed("percentage", releases[id].ConfigID, "only gray"))
       ELSE Begin(p, "pct_save",
                  [NoLoc EXCEPT !.op = "percentage",
                                !.doc = releases[id].ConfigID,
                                !.rid = id, !.rel = releases[id],
                                !.pct = percentage])

UpdatePercentageSave(p) ==
    LET rules == [UnmarshalRules(loc[p].rel.GrayRules) EXCEPT
                     !.Percentage = loc[p].pct]
    IN  /\ pc[p] = "pct_save"
        /\ UNCHANGED <<configs, versions, subscribers>>
        /\ \/ /\ ReleaseRepoUpdate(loc[p].rid,
                     [loc[p].rel EXCEPT !.GrayRules = MarshalRules(rules),
                                        !.GrayPercentage = loc[p].pct])
              /\ Finish(p, [NoResp EXCEPT !.op = "percentage",
                                !.doc = loc[p].doc, !.status = "ok",
                                !.version = loc[p].rel.Version])
              /\ UNCHANGED faults
           \/ /\ StoreFault
              /\ Finish(p, ErrResp(p, "store error"))
              /\ UNCHANGED releases

(***************************************************************************)
(* ReleaseService.Rollback                                                 *)
(***************************************************************************)
ReleaseRollbackRead(p, id) ==
    /\ pc[p] = "idle"
    /\ MayRelease
    /\ UNCHANGED <<configs, versions, releases, subscribers, faults>>
    /\ IF ~HasRelease(id)
       THEN Finish(p, Failed("release_rollback", 0, "ErrReleaseNotFound"))
       ELSE Begin(p, "rrb_save",
                  [NoLoc EXCEPT !.op = "release_rollback",
                                !.doc = releases[id].ConfigID,
                                !.rid = id, !.rel = releases[id]])

ReleaseRollbackSave(p) ==
    /\ pc[p] = "rrb_save"
    /\ UNCHANGED <<configs, versions, subscribers>>
    /\ \/ /\ ReleaseRepoUpdate(loc[p].rid, [loc[p].rel EXCEPT !.Status = "rollback"])
          /\ Goto(p, "rrb_list", loc[p])
          /\ UNCHANGED faults
       \/ /\ StoreFault
          /\ Finish(p, ErrResp(p, "store error"))
          /\ UNCHANGED releases

\* ReleaseRepository.List is ordered by released_at DESC: the first row of
\* the list that matches is the one with the greatest id
PreviousIDs(id, d, env) ==
    {i \in ReleaseIDs : /\ i # id
                        /\ releases[i].ConfigID = d
                        /\ releases[i].Environment = env
                        /\ releases[i].Status = "released"}

ReleaseRollbackList(p) ==
    LET listed == {i \in ReleaseIDs : releases[i].ConfigID = loc[p].rel.ConfigID}
        prev == PreviousIDs(loc[p].rid, loc[p].rel.ConfigID, loc[p].rel.Environment)
        prevVersion == IF prev = {} THEN 0
                       ELSE releases[CHOOSE i \in prev : \A j \in prev : j <= i].Version
    IN  /\ pc[p] = "rrb_list"
        /\ UNCHANGED <<configs, versions, releases, subscribers, faults>>
        /\ IF Cardinality(listed) < 2 \/ prevVersion = 0
           THEN Finish(p, ErrResp(p, "nothing to roll back to"))
           ELSE Goto(p, "rrb_create", [loc[p] EXCEPT !.ver = prevVersion])

ReleaseRollbackCreate(p) ==
    LET newRelease == [NoRelease EXCEPT
                          !.ConfigID = loc[p].rel.ConfigID,
                          !.Version = loc[p].ver,
                          !.Environment = loc[p].rel.Environment,
                          !.Status = "released", !.ReleaseType = "full"]
    IN  /\ pc[p] = "rrb_create"
        /\ UNCHANGED <<configs, versions, subscribers>>
        /\ \/ /\ ReleaseRepoCreate(newRelease)
              /\ Finish(p, [NoResp EXCEPT !.op = "release_rollback",
                                !.doc = loc[p].doc, !.status = "ok",
                                !.version = newRelease.Version])
              /\ UNCHANGED faults
           \/ /\ StoreFault
              /\ Finish(p, ErrResp(p, "store error"))
              /\ UNCHANGED releases

(***************************************************************************)
(* The version store: documents are created, updated, rolled back, read.   *)
(***************************************************************************)
Init ==
    /\ configs = [d \in Docs |-> NoConfig]
    /\ versions = [d \in Docs |-> <<>>]
    /\ releases = <<>>
    /\ subscribers = [p \in {} |-> <<>>]
    /\ pc = [p \in Procs |-> "idle"]
    /\ loc = [p \in Procs |-> NoLoc]
    /\ resp = [p \in Procs |-> NoResp]
    /\ faults = 0

Next ==
    \E p \in Procs :
        \/ \E d \in StoreDocs, ft \in FileTypes, c \in Contents : UploadStart(p, d, ft, c)
        \/ UploadCheck(p)
        \/ UploadCreateConfig(p)
        \/ UploadCreateVersion(p)
        \/ \E d \in StoreDocs, c \in Contents : UpdateStart(p, d, c, "admin")
        \/ UpdateRead(p)
        \/ UpdateInsert(p)
        \/ UpdateSave(p)
        \/ \E d \in StoreDocs, n \in 1..MaxVersion : RollbackStart(p, d, n)
        \/ RollbackTarget(p)
        \/ RollbackRead(p)
        \/ RollbackInsert(p)
        \/ RollbackSave(p)
        \/ \E d \in StoreDocs : GetStart(p, d)
        \/ GetConfig(p)
        \/ GetVersion(p)

Spec == Init /\ [][Next]_vars

(***************************************************************************)
(* Appending to existing documents: the state after POST /config has       *)
(* created the documents at version 1, and then concurrent                 *)
(* ConfigService.Update and VersionService.Rollback requests.              *)
(***************************************************************************)
InitAppend ==
    /\ \E c \in {x \in Contents : JsonValid(x)} :
          /\ configs = [d \in Docs |->
                 IF d \in StoreDocs
                 THEN [exists |-> TRUE, FileType |-> "json", CurrentVersion |-> 1]
                 ELSE NoConfig]
          /\ versions = [d \in Docs |->
                 IF d \in StoreDocs
                 THEN <<[Version |-> 1, Content |-> c,
                         CommitHash |-> generateHash(c)]>>
                 ELSE <<>>]
    /\ releases = <<>>
    /\ subscribers = [p \in {} |-> <<>>]
    /\ pc = [p \in Procs |-> "idle"]
    /\ loc = [p \in Procs |-> NoLoc]
    /\ resp = [p \in Procs |-> NoResp]
    /\ faults = 0

NextAppend ==
    \E p \in Procs :
        \/ \E d \in StoreDocs, c \in Contents : UpdateStart(p, d, c, "admin")
        \/ UpdateRead(p)
        \/ UpdateInsert(p)
        \/ UpdateSave(p)
        \/ \E d \in StoreDocs, n \in 1..MaxVersion : RollbackStart(p, d, n)
        \/ RollbackTarget(p)
        \/ RollbackRead(p)
        \/ RollbackInsert(p)
        \/ RollbackSave(p)

SpecAppend == InitAppend /\ [][NextAppend]_vars

(***************************************************************************)
(* Releasing: a document with two versions, and concurrent release,       *)
(* gray-release and read requests on it.                                   *)
(***************************************************************************)
ReleaseDocs == {1}

\* the environment a document belongs to (configs.environment)
DocEnv(d) == "prod"

InitRelease ==
    /\ configs = [d \in Docs |->
           IF d \in ReleaseDocs
           THEN [exists |-> TRUE, FileType |-> "json", CurrentVersion |-> 2]
           ELSE NoConfig]
    /\ versions = [d \in Docs |->
           IF d \in ReleaseDocs
           THEN <<[Version |-> 1, Content |-> "{}",
                   CommitHash |-> generateHash("{}")],
                  [Version |-> 2, Content |-> "{\"k\":1}",
                   CommitHash |-> generateHash("{\"k\":1}")]>>
           ELSE <<>>]
    /\ releases = <<>>
    /\ subscribers = [p \in {} |-> <<>>]
    /\ pc = [p \in Procs |-> "idle"]
    /\ loc = [p \in Procs |-> NoLoc]
    /\ resp = [p \in Procs |-> NoResp]
    /\ faults = 0

\* the inputs of the release requests; version 0 is a request that names
\* no version, version MaxVersion is one the document does not have
FullVersions == {0, 1}
GrayVersions == {1, MaxVersion}
GrayEnvs == {"prod"}

NextRelease ==
    \E p \in Procs :
        \/ \E d \in ReleaseDocs, env \in Envs, n \in FullVersions :
               ReleaseCreateCheck(p, d, env, n)
        \/ ReleaseCreateInsert(p)
        \/ \E d \in ReleaseDocs, env \in GrayEnvs, n \in GrayVersions,
              req \in RuleRequests : GrayCreateCheck(p, d, env, n, req)
        \/ GrayCreateInsert(p)
        \/ \E id \in 1..MaxReleases : PromoteRead(p, id)
        \/ PromoteSave(p)
        \/ PromoteCreate(p)
        \/ \E id \in 1..MaxReleases : CancelRead(p, id)
        \/ CancelSave(p)
        \/ \E d \in ReleaseDocs : GetStart(p, d)
        \/ GetConfig(p)
        \/ GetVersion(p)

SpecRelease == InitRelease /\ [][NextRelease]_vars

(***************************************************************************)
(* The life of one gray release: its percentage is changed, it is          *)
(* cancelled, releases are rolled back.                                    *)
(***************************************************************************)
PercentageRequests == {r \in RuleRequests : r.RuleType = "percentage"}

NextLifecycle ==
    \E p \in Procs :
        \/ \E d \in ReleaseDocs, n \in FullVersions :
               ReleaseCreateCheck(p, d, DocEnv(d), n)
        \/ ReleaseCreateInsert(p)
        \/ \E d \in ReleaseDocs, req \in PercentageRequests :
               GrayCreateCheck(p, d, DocEnv(d), 1, req)
        \/ GrayCreateInsert(p)
        \/ \E id \in 1..MaxReleases : CancelRead(p, id)
        \/ CancelSave(p)
        \/ \E id \in 1..MaxReleases, pct \in Percentages :
               UpdatePercentageRead(p, id, pct)
        \/ UpdatePercentageSave(p)
        \/ \E id \in 1..MaxReleases : ReleaseRollbackRead(p, id)
        \/ ReleaseRollbackSave(p)
        \/ ReleaseRollbackList(p)
        \/ ReleaseRollbackCreate(p)

SpecLifecycle == InitRelease /\ [][NextLifecycle]_vars

(***************************************************************************)
(* Watching: two documents at version 1, watchers and writers that use     *)
(* the public API.                                                         *)
(***************************************************************************)
WatchContents == {"{\"k\":1}", "{"}

InitWatch ==
    /\ configs = [d \in Docs |->
           [exists |-> TRUE, FileType |-> "json", CurrentVersion |-> 1]]
    /\ versions = [d \in Docs |->
           <<[Version |-> 1, Content |-> "{}",
              CommitHash |-> generateHash("{}")]>>]
    /\ releases = <<>>
    /\ subscribers = [p \in {} |-> <<>>]
    /\ pc = [p \in Procs |-> "idle"]
    /\ loc = [p \in Procs |-> NoLoc]
    /\ resp = [p \in Procs |-> NoResp]
    /\ faults = 0

NextWatch ==
    \E p \in Procs :
        \/ \E d \in Docs, c \in WatchContents : UpdateStart(p, d, c, "public")
        \/ UpdateRead(p)
        \/ UpdateInsert(p)
        \/ UpdateSave(p)
        \/ UpdateNotify(p)
        \/ \E d \in Docs, known \in 0..MaxVersion : WatchRead(p, d, known)
        \/ WatchCheck(p)
        \/ WatchSubscribe(p)
        \/ WatchReceive(p)
        \/ WatchReread(p)
        \/ WatchTimeout(p)
        \/ WatchDone(p)

SpecWatch == InitWatch /\ [][NextWatch]_vars

(***************************************************************************)
(* The notification hub on its own: clients subscribe, take values from    *)
(* their channels or leave them unread, and unsubscribe, while publishers  *)
(* call NotifyChange.  Every call of the service is one critical section   *)
(* of its mutex.                                                           *)
(***************************************************************************)
HubChanges == {[ConfigID |-> 1, Version |-> 2]}

HubSubscribe(clientID) ==
    /\ \E configIDs \in SUBSET Docs : Subscribe(clientID, configIDs)
    /\ UNCHANGED <<configs, versions, releases, pc, loc, resp, faults>>

HubUnsubscribe(clientID) ==
    /\ clientID \in Subscribed
    /\ Unsubscribe(clientID)
    /\ UNCHANGED <<configs, versions, releases, pc, loc, resp, faults>>

\* a client takes the next value from its channel
HubReceive(clientID) ==
    /\ clientID \in Subscribed
    /\ subscribers[clientID] # <<>>
    /\ subscribers' = [subscribers EXCEPT ![clientID] = Tail(@)]
    /\ UNCHANGED <<configs, versions, releases, pc, loc, resp, faults>>

\* a publisher is about to call NotifyChange
HubNotifyStart(p, change) ==
    /\ pc[p] = "idle"
    /\ Begin(p, "hub_notify", [NoLoc EXCEPT !.op = "notify",
                                            !.doc = change.ConfigID,
                                            !.ver = change.Version])
    /\ UNCHANGED <<configs, versions, releases, subscribers, faults>>

HubNotify(p) ==
    /\ pc[p] = "hub_notify"
    /\ NotifyChange([ConfigID |-> loc[p].doc, Version |-> loc[p].ver])
    /\ Finish(p, [NoResp EXCEPT !.op = "notify", !.doc = loc[p].doc,
                                !.status = "ok", !.version = loc[p].ver])
    /\ UNCHANGED <<configs, versions, releases, faults>>

NextNotify ==
    \/ \E clientID \in Procs :
           \/ HubSubscribe(clientID)
           \/ HubUnsubscribe(clientID)
           \/ HubReceive(clientID)
    \/ \E p \in Procs :
           \/ \E change \in HubChanges : HubNotifyStart(p, change)
           \/ HubNotify(p)

SpecNotify == InitWatch /\ [][NextNotify]_vars

(***************************************************************************)
(* C1.  The versions of a document carry the numbers 1, 2, 3, ... in the   *)
(* order of their insertion, with no gap and no repeat, under every        *)
(* interleaving of Update and Rollback requests; and a version that is     *)
(* inserted carries currentVersion + 1 of the state it is inserted into.   *)
(***************************************************************************)
NumberedFromOne(d) ==
    \A i \in DOMAIN versions[d] : versions[d][i].Version = i

AppendTakesNext(d) ==
    Len(versions'[d]) > Len(versions[d]) =>
        /\ Len(versions'[d]) = Len(versions[d]) + 1
        /\ versions'[d][Len(versions'[d])].Version = configs[d].CurrentVersion + 1

MonotonicVersioning ==
    [][\A d \in Docs :
          NumberedFromOne(d) /\ NumberedFromOne(d)' /\ AppendTakesNext(d)]_vars

\* two writers read the same currentVersion; the second insert was refused
\* by the unique key although no store failure happened
WritersCollided ==
    \E p \in Procs :
        /\ resp[p].op \in {"update", "rollback"}
        /\ resp[p].status = "internal_error"
        /\ ~resp[p].inserted
        /\ faults = 0
        /\ Len(versions[resp[p].doc]) >= 2

(***************************************************************************)
(* C2.  At most one release with status gray exists per document and       *)
(* environment, in every reachable state.                                  *)
(***************************************************************************)
AtMostOneGray ==
    \A d \in Docs, env \in Envs : Cardinality(GrayIDs(d, env)) <= 1

(***************************************************************************)
(* C3.  Whenever a document row exists, the version row its currentVersion *)
(* pointer names exists as well.                                           *)
(***************************************************************************)
PointerHasVersionRow ==
    \A d \in Docs :
        configs[d].exists => HasVersion(d, configs[d].CurrentVersion)

(***************************************************************************)
(* C4.  An Update or Rollback that returned an error has inserted no       *)
(* version row, and one that succeeded has inserted its row and advanced   *)
(* the pointer to it.                                                      *)
(***************************************************************************)
AppendAllOrNothing ==
    \A p \in Procs :
        resp[p].op \in {"update", "rollback"} =>
            /\ resp[p].status # "ok" => ~resp[p].inserted
            /\ resp[p].status = "ok" =>
                   /\ resp[p].inserted
                   /\ HasVersion(resp[p].doc, resp[p].version)

(***************************************************************************)
(* Resolve, as the specification defines it over the release table: the    *)
(* gray version for a caller the active gray release's rule takes in, the  *)
(* base version otherwise.  The base version is that of the latest full    *)
(* release of the environment, or currentVersion when nothing is released. *)
(***************************************************************************)
FullIDs(d, env) ==
    {i \in ReleaseIDs : /\ releases[i].ConfigID = d
                        /\ releases[i].Environment = env
                        /\ releases[i].Status = "released"
                        /\ releases[i].ReleaseType = "full"}

BaseVersion(d, env) ==
    IF FullIDs(d, env) = {} THEN configs[d].CurrentVersion
    ELSE releases[CHOOSE i \in FullIDs(d, env) :
                      \A j \in FullIDs(d, env) : j <= i].Version

Resolve(d, env, caller) ==
    IF ShouldUseGrayRelease(d, env, caller.id, caller.ip)
    THEN GetActiveGrayRelease(d, env).Version
    ELSE BaseVersion(d, env)

(***************************************************************************)
(* C5.  A read that completes serves, to whichever caller made it, the     *)
(* version Resolve gives for the document, its environment and the caller. *)
(***************************************************************************)
ReadServesResolve ==
    [][\A p \in Procs, d \in Docs :
          (/\ pc[p] = "get_ver" /\ pc'[p] = "idle"
           /\ loc[p].doc = d /\ resp'[p].status = "ok") =>
              \A caller \in Callers :
                  resp'[p].version = Resolve(d, DocEnv(d), caller)']_vars

(***************************************************************************)
(* C6.  When Promote returns successfully, no gray release that is as old  *)
(* as the promoted one or older is still active for its document and       *)
(* environment, and the current release of the document and environment is *)
(* a full release of the promoted version.                                 *)
(***************************************************************************)
PromotionUniversal ==
    [][\A p \in Procs, d \in Docs, env \in Envs, id \in 1..MaxReleases,
          n \in 1..MaxVersion :
          (/\ pc[p] = "pro_create" /\ pc'[p] = "idle"
           /\ resp'[p].status = "ok"
           /\ loc[p].rid = id /\ loc[p].rel.ConfigID = d
           /\ loc[p].rel.Environment = env /\ loc[p].rel.Version = n) =>
              /\ \A i \in GrayIDs(d, env)' : i > id
              /\ HasCurrentRelease(d, env)'
              /\ GetByConfigAndEnv(d, env)'.ReleaseType = "full"
              /\ GetByConfigAndEnv(d, env)'.Version = n]_vars

(***************************************************************************)
(* C7.  When Cancel returns successfully, every caller resolves to the     *)
(* base version of the document and environment, unless a gray release     *)
(* newer than the cancelled one has been created meanwhile.                *)
(***************************************************************************)
CancelReverts ==
    [][\A p \in Procs, d \in Docs, env \in Envs, id \in 1..MaxReleases :
          (/\ pc[p] = "can_save" /\ pc'[p] = "idle"
           /\ resp'[p].status = "ok"
           /\ loc[p].rid = id /\ loc[p].rel.ConfigID = d
           /\ loc[p].rel.Environment = env) =>
              \/ \E i \in GrayIDs(d, env)' : i > id
              \/ \A caller \in Callers :
                     Resolve(d, env, caller)' = BaseVersion(d, env)']_vars

(***************************************************************************)
(* C8.  A Watch call that ends with the not-changed answer while the       *)
(* latest version of the watched document is still the version the caller  *)
(* supplied ends so because its timeout elapsed, and for no other reason.  *)
(***************************************************************************)
NotModifiedOnlyOnTimeout ==
    [][\A p \in Procs, d \in Docs :
          (/\ pc[p] \in {"w_select", "w_reread"} /\ pc'[p] = "idle"
           /\ loc[p].doc = d
           /\ resp'[p].status = "not_modified"
           /\ GetLatest(d).Version = loc[p].ver) =>
              resp'[p].cause = "timeout"]_vars

(***************************************************************************)
(* C9.  The version check of a Watch call whose supplied version is lower  *)
(* than the latest version of the document ends the call in that step with *)
(* the changed answer, carrying the latest version and its content, and    *)
(* neither has the call subscribed nor does the step touch the subscriber  *)
(* table.                                                                  *)
(***************************************************************************)
ImmediateReturn ==
    [][\A p \in Procs, d \in Docs, known \in 0..MaxVersion :
          (/\ pc[p] = "w_check" /\ pc'[p] # "w_check"
           /\ loc[p].doc = d /\ loc[p].ver = known
           /\ HasLatest(d) /\ known < GetLatest(d).Version) =>
              /\ pc'[p] = "idle"
              /\ resp'[p].op = "watch"
              /\ resp'[p].status = "changed"
              /\ resp'[p].version = GetLatest(d).Version
              /\ resp'[p].content = GetLatest(d).Content
              /\ p \notin Subscribed
              /\ UNCHANGED subscribers]_vars

\* a Watch call was answered at once with a version that an update appended
AnsweredAtOnce ==
    \E p \in Procs :
        /\ resp[p].op = "watch"
        /\ resp[p].status = "changed"
        /\ resp[p].cause = "immediate"
        /\ resp[p].version >= 2
        /\ resp[p].version = GetLatest(resp[p].doc).Version
        /\ p \notin Subscribed

(***************************************************************************)
(* C10.  A Watch call that a change of its own document was delivered to   *)
(* while it waited, and whose client is still there, ends with the changed *)
(* answer, carrying the latest version and its content, and its            *)
(* subscription is removed when it ends.                                   *)
(***************************************************************************)
PublishedChangeAnswered ==
    [][\A p \in Procs, d \in Docs :
          (/\ pc[p] \in {"w_select", "w_reread"} /\ pc'[p] = "idle"
           /\ loc[p].doc = d
           /\ resp'[p].cause # "client_gone"
           /\ \/ pc[p] = "w_reread"
              \/ \E i \in DOMAIN subscribers[p] :
                     subscribers[p][i].ConfigID = d) =>
              /\ resp'[p].status = "changed"
              /\ resp'[p].version = GetLatest(d).Version
              /\ resp'[p].content = GetLatest(d).Content
              /\ p \notin DOMAIN subscribers']_vars

(***************************************************************************)
(* C11.  When a change of document d is published, every subscriber that   *)
(* watches d and whose channel has room receives it, and the channel of    *)
(* every other subscriber is left as it was.  The interest set of a        *)
(* subscriber is the one its Watch call handed to Subscribe: its document. *)
(***************************************************************************)
PublishToInterested ==
    [][\A p \in Procs, d \in Docs, n \in 1..MaxVersion :
          (/\ pc[p] = "upd_notify" /\ pc'[p] = "idle"
           /\ loc[p].doc = d /\ loc[p].cv + 1 = n) =>
              \A q \in Subscribed :
                  subscribers'[q] =
                      IF loc[q].doc = d /\ Len(subscribers[q]) < ChannelCap
                      THEN Append(subscribers[q],
                                  [ConfigID |-> d, Version |-> n])
                      ELSE subscribers[q]]_vars

(***************************************************************************)
(* C12.  A publisher that is about to call NotifyChange can always take    *)
(* the step, whatever the channels hold; the step leaves a full channel as *)
(* it was, appends the change to every channel that has room, and ends the *)
(* publisher's call.                                                       *)
(***************************************************************************)
PublisherNeverWaits ==
    /\ [](\A p \in Procs : pc[p] = "hub_notify" => ENABLED HubNotify(p))
    /\ [][\A p \in Procs, change \in HubChanges :
             (/\ pc[p] = "hub_notify" /\ pc'[p] # "hub_notify"
              /\ loc[p].doc = change.ConfigID
              /\ loc[p].ver = change.Version) =>
                 /\ pc'[p] = "idle"
                 /\ resp'[p].status = "ok"
                 /\ DOMAIN subscribers' = Subscribed
                 /\ \A q \in Subscribed :
                        subscribers'[q] =
                            IF Len(subscribers[q]) = ChannelCap
                            THEN subscribers[q]
                            ELSE Append(subscribers[q], change)]_vars

\* a publisher completed while one channel was full and unread, and the
\* other subscriber was still handed the change
SkippedFullChannel ==
    \E p \in Procs, q \in Subscribed, r \in Subscribed :
        /\ resp[p].op = "notify" /\ resp[p].status = "ok"
        /\ pc[p] = "idle"
        /\ Len(subscribers[q]) = ChannelCap
        /\ Len(subscribers[r]) = 1

(***************************************************************************)
(* C13.  The subscriber table holds exactly the entries of the Watch calls *)
(* that have subscribed and not yet returned; it is empty when there is no *)
(* such call.                                                              *)
(***************************************************************************)
Waiting == {p \in Procs : pc[p] \in {"w_select", "w_reread"}}

SubscribedOnlyWhileWaiting == Subscribed = Waiting

\* a Watch call that had subscribed was answered with a delivered change,
\* and no entry is left
WatchLeftNoEntry ==
    \E p \in Procs :
        /\ resp[p].op = "watch"
        /\ resp[p].cause \in {"notified", "timeout", "client_gone"}
        /\ pc[p] = "idle"
        /\ Subscribed = {}

(***************************************************************************)
(* The /api/v1 group: OptionalAuth, then RequirePermission("write") on     *)
(* PUT /config and POST /config, then the handler.                          *)
(***************************************************************************)
\* table project_keys: rows by access key; ExpiresAt 0 is the nil pointer,
\* an entry of IPWhitelist with a -1 octet is a "*" pattern
ProjectKeys ==
    LET key == [ProjectID |-> 1, IsActive |-> TRUE, ExpiresAt |-> 0,
                IPWhitelist |-> <<>>, Write |-> TRUE,
                SecretKeyHash |-> "secret"]
    IN  [ak \in {"ak_rw", "ak_ro", "ak_off", "ak_old", "ak_ip"} |->
            CASE ak = "ak_rw"  -> key
              [] ak = "ak_ro"  -> [key EXCEPT !.Write = FALSE]
              [] ak = "ak_off" -> [key EXCEPT !.IsActive = FALSE]
              [] ak = "ak_old" -> [key EXCEPT !.ExpiresAt = 1]
              [] ak = "ak_ip"  -> [key EXCEPT !.IPWhitelist =
                                      <<Addr(<<10, 0, 0, 1>>),
                                        Cidr(<<10, 0, 1, 0>>, 24),
                                        Addr(<<10, 2, -1, -1>>)>>]]

\* the credentials requests arrive with: a bearer token, nothing, an
\* unknown key, each key from an address outside every pattern, the expiring
\* key before and after its expiry, the allow-listed key from four addresses
AuthRequests ==
    {[NoAuth EXCEPT !.bearer = b, !.ip = <<10, 9, 9, 9>>, !.now = 1] :
        b \in {"valid", "forged"}}
    \cup {[NoAuth EXCEPT !.accessKey = ak, !.ip = <<10, 9, 9, 9>>, !.now = 1] :
            ak \in {"", "ak_none"} \cup DOMAIN ProjectKeys}
    \cup {[NoAuth EXCEPT !.accessKey = "ak_old", !.ip = <<10, 9, 9, 9>>,
                         !.now = 2]}
    \cup {[NoAuth EXCEPT !.accessKey = "ak_ip", !.ip = ip, !.now = 1] :
            ip \in {<<10, 0, 0, 1>>, <<10, 0, 1, 7>>, <<10, 2, 3, 4>>}}

\* middleware.matchIPRange, after the ip == clientIP test of its caller
authMatchIPRange(clientIP, pattern) ==
    IF pattern.addr = clientIP /\ ~pattern.cidr THEN TRUE
    ELSE IF pattern.cidr THEN NetContains(pattern, clientIP)
    ELSE IF \E i \in 1..4 : pattern.addr[i] = -1
    THEN \A i \in 1..4 : pattern.addr[i] \in {-1, clientIP[i]}
    ELSE FALSE

\* the auth context of a request, or the status it is aborted with
Aborted(status) == [status |-> status, ProjectID |-> 0, Write |-> FALSE]
AuthContext(projectID, write) ==
    [status |-> "next", ProjectID |-> projectID, Write |-> write]

\* middleware.AccessKeyAuth
AccessKeyAuth(a) ==
    IF a.accessKey = "" THEN Aborted("unauthorized")
    ELSE IF a.accessKey \notin DOMAIN ProjectKeys THEN Aborted("unauthorized")
    ELSE LET key == ProjectKeys[a.accessKey]
         IN  IF ~key.IsActive THEN Aborted("unauthorized")
             ELSE IF key.ExpiresAt # 0 /\ key.ExpiresAt < a.now
             THEN Aborted("unauthorized")
             ELSE IF /\ key.IPWhitelist # <<>>
                     /\ ~\E i \in DOMAIN key.IPWhitelist :
                            authMatchIPRange(a.ip, key.IPWhitelist[i])
             THEN Aborted("forbidden")
             ELSE AuthContext(key.ProjectID, key.Write)

\* middleware.OptionalAuth: a bearer token (JWTAuth: every permission, no
\* project), else an access key, else a read-only context
OptionalAuth(a) ==
    IF a.bearer # ""
    THEN IF a.bearer = "valid" THEN AuthContext(0, TRUE)
         ELSE Aborted("unauthorized")
    ELSE IF a.accessKey # "" THEN AccessKeyAuth(a)
    ELSE AuthContext(0, FALSE)

\* the check that lets every context through
RequirePermissionAny(permission, ctx) ==
    ctx

\* middleware.RequirePermission
RequirePermission(permission, ctx) ==
    IF ctx.status # "next" THEN ctx
    ELSE IF permission = "write" /\ ctx.Write THEN ctx
    ELSE Aborted("forbidden")

\* PUT /api/v1/config (op "update") or POST /api/v1/config (op "upload")
\* arrives
PublicWriteStart(p, op, d, c, a) ==
    /\ pc[p] = "idle"
    /\ op = "update" => MayAppend(d)
    /\ Begin(p, "guard", [NoLoc EXCEPT !.op = op, !.doc = d, !.content = c,
                                      !.via = "public", !.fileType = "json",
                                      !.auth = a])
    /\ UNCHANGED <<configs, versions, releases, subscribers, faults>>

\* the middleware chain, and the handler up to its call of the service:
\* getProjectID(c) == 0 is answered 401; Upload validates the content
PublicWriteGuard(p) ==
    LET ctx == RequirePermission("write", OptionalAuth(loc[p].auth))
        denied(status) == [NoResp EXCEPT !.op = loc[p].op, !.doc = loc[p].doc,
                                         !.status = status]
    IN  /\ pc[p] = "guard"
        /\ UNCHANGED <<configs, versions, releases, subscribers, faults>>
        /\ IF ctx.status # "next" THEN Finish(p, denied(ctx.status))
           ELSE IF ctx.ProjectID = 0 THEN Finish(p, denied("unauthorized"))
           ELSE IF loc[p].op = "update" THEN Goto(p, "upd_read", loc[p])
           ELSE IF ~JsonValid(loc[p].content)
           THEN Finish(p, ErrResp(p, "ErrInvalidJSON"))
           ELSE Goto(p, "upl_check", loc[p])

AccessContents == WatchContents

NextAccess ==
    \E p \in Procs :
        \/ \E op \in {"update", "upload"}, d \in StoreDocs,
              c \in AccessContents, a \in AuthRequests :
                  PublicWriteStart(p, op, d, c, a)
        \/ PublicWriteGuard(p)
        \/ UploadCheck(p)
        \/ UploadCreateConfig(p)
        \/ UploadCreateVersion(p)
        \/ UpdateRead(p)
        \/ UpdateInsert(p)
        \/ UpdateSave(p)
        \/ UpdateNotify(p)

SpecAccess == Init /\ [][NextAccess]_vars

(***************************************************************************)
(* C14.  PUT /config and POST /config write only for a caller whose key is *)
(* active, not expired, allows the caller's IP when it has an allow-list,  *)
(* and holds write; every other request is denied, with Forbidden when the *)
(* key is good and only the capability is missing, and writes nothing.     *)
(***************************************************************************)
KeyAdmits(a) ==
    /\ a.accessKey \in DOMAIN ProjectKeys
    /\ a.bearer = ""
    /\ LET key == ProjectKeys[a.accessKey]
       IN  /\ key.IsActive
           /\ key.ExpiresAt = 0 \/ key.ExpiresAt >= a.now
           /\ \/ key.IPWhitelist = <<>>
              \/ \E i \in DOMAIN key.IPWhitelist :
                     authMatchIPRange(a.ip, key.IPWhitelist[i])

KeyGrantsWrite(a) == KeyAdmits(a) /\ ProjectKeys[a.accessKey].Write

WriteOnlyWhenGranted ==
    /\ [](\A p \in Procs :
              pc[p] \notin {"idle", "guard"} => KeyGrantsWrite(loc[p].auth))
    /\ [][(configs' # configs \/ versions' # versions) =>
              \E p \in Procs : /\ pc[p] \notin {"idle", "guard"}
                               /\ pc'[p] # pc[p]
                               /\ KeyGrantsWrite(loc[p].auth)]_vars
    /\ [][\A p \in Procs :
              (/\ pc[p] = "guard" /\ pc'[p] # "guard"
               /\ ~KeyGrantsWrite(loc[p].auth)) =>
                  /\ pc'[p] = "idle"
                  /\ resp'[p].status \in {"unauthorized", "forbidden"}
                  /\ KeyAdmits(loc[p].auth) => resp'[p].status = "forbidden"
                  /\ UNCHANGED <<configs, versions>>]_vars

\* a caller inside its key's allow-list has its version inserted, after
\* another caller was refused for the missing capability
AllowListedWriteAfterDenial ==
    \E p \in Procs, q \in Procs :
        /\ pc[p] = "upd_save"
        /\ loc[p].auth.accessKey = "ak_ip"
        /\ resp[q].op = "upload" /\ resp[q].status = "forbidden"

(***************************************************************************)
(* Request signing (middleware/signature.go).  No route installs           *)
(* SignatureAuth: the /api/v1 group runs OptionalAuth alone.               *)
(***************************************************************************)
MaxTimeDiff == 300

\* buildStringToSign: method, path, sorted query, access key, timestamp,
\* nonce, joined by newlines
buildStringToSign(method, path, query, a) ==
    <<method, path, query, a.accessKey, a.timestamp, a.nonce>>

\* calculateSignature: HMAC-SHA256, equal exactly when key and text are
calculateSignature(stringToSign, secretKey) ==
    [secret |-> secretKey, text |-> stringToSign]

\* middleware.SignatureAuth, the status it leaves the request with
SignatureAuth(method, path, query, a) ==
    IF a.accessKey = "" THEN "unauthorized"
    ELSE IF a.signature = NoSignature THEN "next"
    ELSE IF (IF a.now - a.timestamp < 0 THEN a.timestamp - a.now
             ELSE a.now - a.timestamp) > MaxTimeDiff
    THEN "unauthorized"
    ELSE IF \/ a.accessKey \notin DOMAIN ProjectKeys
            \/ ~ProjectKeys[a.accessKey].IsActive
    THEN "unauthorized"
    ELSE IF a.signature # calculateSignature(
                               buildStringToSign(method, path, query, a),
                               ProjectKeys[a.accessKey].SecretKeyHash)
    THEN "unauthorized"
    ELSE "next"

\* PUT /api/v1/config requests of the key ak_rw at time 1000: unsigned,
\* signed with the key's secret or with another one, with a timestamp
\* inside, at the edge of, or outside the window
SignedRequests ==
    LET base(ts) == [NoAuth EXCEPT !.accessKey = "ak_rw",
                                   !.ip = <<10, 9, 9, 9>>, !.now = 1000,
                                   !.timestamp = ts, !.nonce = "n1"]
    IN  {[NoAuth EXCEPT !.accessKey = "ak_rw", !.ip = <<10, 9, 9, 9>>,
                        !.now = 1000]}
        \cup {[base(ts) EXCEPT !.signature = calculateSignature(
                   buildStringToSign("PUT", "/api/v1/config", "", base(ts)),
                   secret)] :
                 ts \in {1000, 1000 - MaxTimeDiff, 999 - MaxTimeDiff},
                 secret \in {"secret", "guess"}}

NextSigned ==
    \E p \in Procs :
        \/ \E d \in StoreDocs, c \in AccessContents, a \in SignedRequests :
               PublicWriteStart(p, "update", d, c, a)
        \/ PublicWriteGuard(p)
        \/ UpdateRead(p)
        \/ UpdateInsert(p)
        \/ UpdateSave(p)
        \/ UpdateNotify(p)

SpecSigned == InitWatch /\ [][NextSigned]_vars

(***************************************************************************)
(* C15.  A request that carries a signature reaches the public config      *)
(* handler only when the signature is the keyed digest of its canonical    *)
(* string under the key's secret and its timestamp is within 300 s of now. *)
(***************************************************************************)
SignedRequestsVerified ==
    [][\A p \in Procs :
          (/\ pc[p] = "guard" /\ pc'[p] = "upd_read"
           /\ loc[p].auth.signature # NoSignature) =>
              /\ SignatureAuth("PUT", "/api/v1/config", "", loc[p].auth) = "next"
              /\ loc[p].auth.signature.secret =
                     ProjectKeys[loc[p].auth.accessKey].SecretKeyHash
              /\ loc[p].auth.now - loc[p].auth.timestamp <= MaxTimeDiff
              /\ loc[p].auth.timestamp - loc[p].auth.now <= MaxTimeDiff]_vars

(***************************************************************************)
(* C16.  CreateGray for a (config, environment) that has a release with    *)
(* status gray is answered Conflict (409) and adds no release row.         *)
(***************************************************************************)
SecondGrayIsConflict ==
    [][\A p \in Procs, d \in ReleaseDocs, env \in GrayEnvs :
          (/\ pc[p] = "idle" /\ pc'[p] = "idle"
           /\ resp'[p] # resp[p]
           /\ resp'[p].op = "gray" /\ resp'[p].doc = d
           /\ HasActiveGrayRelease(d, env)) =>
              /\ resp'[p].status = "conflict"
              /\ releases' = releases]_vars

(***************************************************************************)
(* C17.  Promote, Cancel and UpdatePercentage on a release whose status is *)
(* not gray fail with an outcome of their own, neither NotFound nor the    *)
(* generic internal error, and change no release row.  The release was     *)
(* found (the response names its config) and no release of that config is  *)
(* gray.                                                                   *)
(***************************************************************************)
NotGrayIsInvalidState ==
    [][\A p \in Procs, d \in ReleaseDocs :
          (/\ pc[p] = "idle" /\ pc'[p] = "idle"
           /\ resp'[p] # resp[p]
           /\ resp'[p].op \in {"promote", "cancel", "percentage"}
           /\ resp'[p].doc = d
           /\ \A id \in ReleaseIDs :
                  releases[id].ConfigID = d => releases[id].Status # "gray") =>
              /\ resp'[p].status \notin {"ok", "not_found", "internal_error"}
              /\ releases' = releases]_vars

(***************************************************************************)
(* C18.  A gray release only ever becomes promoted or cancelled, and a     *)
(* promoted or cancelled release keeps its status for ever.                *)
(***************************************************************************)
GrayEndsPromotedOrCancelled ==
    [][\A id \in ReleaseIDs :
          /\ releases[id].Status = "gray" =>
                 releases'[id].Status \in {"gray", "promoted", "cancelled"}
          /\ releases[id].Status \in {"promoted", "cancelled"} =>
                 releases'[id].Status = releases[id].Status]_vars

(***************************************************************************)
(* EnvDiffService.Sync: the same configuration in two environments is two  *)
(* documents; the latest version row of the target is rewritten in place.  *)
(***************************************************************************)
\* json.Unmarshal into a map, on the payloads of the model: the members
Unmarshal(content) ==
    IF content \in {"{\"k\":1}", "{\n  \"k\": 1\n}"} THEN {<<"k", 1>>} ELSE {}

\* json.MarshalIndent(data, "", "  ")
MarshalIndent(data) ==
    IF data = {} THEN "{}" ELSE "{\n  \"k\": 1\n}"

SyncKeys == {<<>>, <<"k">>}

\* the reads of Sync and its merge: every member of the source when no key
\* is named, else the named members the source has
SyncRead(p, source, target, keys) ==
    /\ pc[p] = "idle"
    /\ UNCHANGED <<configs, versions, releases, subscribers, faults>>
    /\ IF ~configs[source].exists \/ ~configs[target].exists
       THEN Finish(p, Failed("sync", target, "ErrConfigNotFound"))
       ELSE IF ~HasLatest(source) \/ ~HasLatest(target)
       THEN Finish(p, Failed("sync", target, "record not found"))
       ELSE LET sourceData == Unmarshal(GetLatest(source).Content)
                targetData == Unmarshal(GetLatest(target).Content)
                named(kv) == \E i \in DOMAIN keys : keys[i] = kv[1]
                merged == IF keys = <<>> THEN sourceData
                          ELSE {kv \in targetData :
                                   ~\E s \in sourceData :
                                       s[1] = kv[1] /\ named(s)}
                               \cup {s \in sourceData : named(s)}
            IN  Begin(p, "sync_save",
                      [NoLoc EXCEPT !.op = "sync", !.doc = target,
                           !.ver = GetLatest(target).Version,
                           !.content = MarshalIndent(merged)])

\* versionRepo.Update: Save of the row that was read, with the new content
SyncSave(p) ==
    /\ pc[p] = "sync_save"
    /\ UNCHANGED <<configs, releases, subscribers>>
    /\ \/ /\ versions' = [versions EXCEPT ![loc[p].doc] =
                 [i \in DOMAIN @ |->
                     IF @[i].Version = loc[p].ver
                     THEN [@[i] EXCEPT !.Content = loc[p].content]
                     ELSE @[i]]]
          /\ Finish(p, [NoResp EXCEPT !.op = "sync", !.doc = loc[p].doc,
                            !.status = "ok", !.version = loc[p].ver,
                            !.content = loc[p].content])
          /\ UNCHANGED faults
       \/ /\ StoreFault
          /\ Finish(p, ErrResp(p, "store error"))
          /\ UNCHANGED versions

NextSync ==
    \E p \in Procs :
        \/ \E d \in StoreDocs, c \in Contents : UpdateStart(p, d, c, "admin")
        \/ UpdateRead(p)
        \/ UpdateInsert(p)
        \/ UpdateSave(p)
        \/ \E d \in StoreDocs, n \in 1..MaxVersion : RollbackStart(p, d, n)
        \/ RollbackTarget(p)
        \/ RollbackRead(p)
        \/ RollbackInsert(p)
        \/ RollbackSave(p)
        \/ \E source \in Docs, target \in Docs, keys \in SyncKeys :
               source # target /\ SyncRead(p, source, target, keys)
        \/ SyncSave(p)

SpecSync == InitWatch /\ [][NextSync]_vars

(***************************************************************************)
(* C19.  A version row, once created, keeps its version number, content    *)
(* and hash; operations only add rows.                                     *)
(***************************************************************************)
VersionRowsImmutable ==
    [][\A d \in Docs :
          /\ Len(versions'[d]) >= Len(versions[d])
          /\ \A i \in DOMAIN versions[d] : versions'[d][i] = versions[d][i]]_vars

(***************************************************************************)
(* C20.  Rollback(config, N): when version N does not exist the call       *)
(* fails NotFound and creates nothing; otherwise the one row it inserts is *)
(* numbered currentVersion + 1 and holds the content of version N, and the *)
(* call returns with currentVersion advanced to that row.                  *)
(***************************************************************************)
RollbackCopiesVersion ==
    [][\A p \in Procs, d \in Docs, n \in 1..MaxVersion :
          (loc[p].op = "rollback" /\ loc[p].doc = d /\ loc[p].ver = n) =>
              /\ (pc[p] = "rb_target" /\ pc'[p] # "rb_target"
                  /\ ~HasVersion(d, n)) =>
                     /\ pc'[p] = "idle"
                     /\ resp'[p].status = "not_found"
                     /\ UNCHANGED <<configs, versions>>
              /\ (pc[p] = "rb_insert" /\ pc'[p] = "rb_save") =>
                     /\ Len(versions'[d]) = Len(versions[d]) + 1
                     /\ SubSeq(versions'[d], 1, Len(versions[d])) = versions[d]
                     /\ versions'[d][Len(versions'[d])].Version =
                            configs[d].CurrentVersion + 1
                     /\ versions'[d][Len(versions'[d])].Content =
                            GetByConfigAndVersion(d, n).Content
              /\ (pc[p] = "rb_save" /\ pc'[p] = "idle"
                  /\ resp'[p].status = "ok") =>
                     /\ configs'[d].CurrentVersion = configs[d].CurrentVersion + 1
                     /\ resp'[p].version = configs'[d].CurrentVersion
                     /\ UNCHANGED versions]_vars

(***************************************************************************)
(* C21.  Every stored version row carries the hash of the content it       *)
(* holds, so two rows with the same content carry the same hash.           *)
(***************************************************************************)
HashOfStoredContent ==
    /\ \A d \in Docs : \A i \in DOMAIN versions[d] :
           versions[d][i].CommitHash = generateHash(versions[d][i].Content)
    /\ \A d \in Docs, e \in Docs :
           \A i \in DOMAIN versions[d], j \in DOMAIN versions[e] :
               versions[d][i].Content = versions[e][j].Content =>
                   versions[d][i].CommitHash = versions[e][j].CommitHash

(***************************************************************************)
(* The percentage rule: one gray release of document 1 in prod with a      *)
(* percentage rule, callers that ask ShouldUseGrayRelease, and requests    *)
(* that change the percentage.  The handler binds any integer.             *)
(***************************************************************************)
DecidePercentages == {-1, 0, 36, 55, 100, 101}

InitPercentage ==
    /\ configs = [d \in Docs |->
           IF d \in ReleaseDocs
           THEN [exists |-> TRUE, FileType |-> "json", CurrentVersion |-> 1]
           ELSE NoConfig]
    /\ versions = [d \in Docs |->
           IF d \in ReleaseDocs
           THEN <<[Version |-> 1, Content |-> "{}",
                   CommitHash |-> generateHash("{}")]>>
           ELSE <<>>]
    /\ \E pct \in DecidePercentages :
           releases = <<[ConfigID |-> 1, Version |-> 1, Environment |-> "prod",
                         Status |-> "gray", ReleaseType |-> "gray",
                         GrayRules |-> MarshalRules(
                             [Type |-> "percentage", Percentage |-> pct,
                              ClientIDs |-> <<>>, IPRanges |-> <<>>]),
                         GrayPercentage |-> pct]>>
    /\ subscribers = [p \in {} |-> <<>>]
    /\ pc = [p \in Procs |-> "idle"]
    /\ loc = [p \in Procs |-> NoLoc]
    /\ resp = [p \in Procs |-> NoResp]
    /\ faults = 0

\* a caller asks ShouldUseGrayRelease; the response names the caller,
\* the version it is given and the decision
GrayDecide(p, d, env, caller) ==
    /\ pc[p] = "idle"
    /\ UNCHANGED <<configs, versions, releases, subscribers, faults>>
    /\ Finish(p, [NoResp EXCEPT
           !.op = "decide", !.doc = d, !.cause = caller.name,
           !.status = IF ShouldUseGrayRelease(d, env, caller.id, caller.ip)
                      THEN "gray" ELSE "base",
           !.version = IF ShouldUseGrayRelease(d, env, caller.id, caller.ip)
                       THEN GetActiveGrayRelease(d, env).Version ELSE 0])

NextPercentage ==
    \E p \in Procs :
        \/ \E d \in ReleaseDocs, caller \in Callers :
               GrayDecide(p, d, DocEnv(d), caller)
        \/ \E id \in 1..MaxReleases, pct \in DecidePercentages :
               UpdatePercentageRead(p, id, pct)
        \/ UpdatePercentageSave(p)

SpecPercentage == InitPercentage /\ [][NextPercentage]_vars

(***************************************************************************)
(* C22.  Under a percentage rule p the decision for a caller depends on    *)
(* its id and p alone: out when p <= 0, in when p >= 100, else in exactly  *)
(* when the id's bucket (FNV-1a mod 100) is below p.                       *)
(***************************************************************************)
RulePercentage ==
    UnmarshalRules(GetActiveGrayRelease(1, "prod").GrayRules).Percentage

PercentageDecides ==
    [][\A p \in Procs, caller \in Callers, pct \in DecidePercentages :
          (/\ resp'[p] # resp[p]
           /\ resp'[p].op = "decide"
           /\ resp'[p].cause = caller.name
           /\ RulePercentage = pct) =>
              (resp'[p].status = "gray") =
                  IF pct <= 0 THEN FALSE
                  ELSE IF pct >= 100 THEN TRUE
                  ELSE Fnv32aMod100(caller.id) < pct]_vars

\* at 55 percent the caller in bucket 35 is in and the caller whose bucket
\* is 55 itself is out
BucketBoundaryDecided ==
    \E p \in Procs, q \in Procs :
        /\ RulePercentage = 55
        /\ resp[p].op = "decide" /\ resp[q].op = "decide"
        /\ resp[p].cause = "app-2" /\ resp[p].status = "gray"
        /\ resp[q].cause = "web-1" /\ resp[q].status = "base"

(***************************************************************************)
(* C23.  ConfigService.Update of an existing document with content that is *)
(* not valid for the document's format (json, yaml) fails with a           *)
(* validation error, inserts no version and leaves currentVersion alone.   *)
(***************************************************************************)
InvalidContentRejected ==
    [][\A p \in Procs, d \in Docs :
          (/\ pc[p] = "upd_read" /\ pc'[p] # "upd_read"
           /\ loc[p].doc = d
           /\ configs[d].exists
           /\ \/ configs[d].FileType = "json" /\ ~JsonValid(loc[p].content)
              \/ configs[d].FileType = "yaml" /\ ~YamlValid(loc[p].content)) =>
              /\ pc'[p] = "idle"
              /\ resp'[p].status = "validation_error"
              /\ UNCHANGED <<configs, versions>>]_vars

(***************************************************************************)
(* Diffs.  GET /api/configs/:id/diff calls VersionService.Diff, a          *)
(* line-by-line comparison; DiffService.DiffJSON, the tree walk, has no    *)
(* caller.                                                                 *)
(***************************************************************************)
\* the contents of the versions that are compared, and strings.Split of
\* them on "\n"
DiffContents == {"{\"k\":1}", "{\n  \"k\": 1\n}", "{\n\n}", "{\n  \"k\": 1"}

SplitLines(content) ==
    CASE content = "{\n  \"k\": 1\n}" -> <<"{", "  \"k\": 1", "}">>
      [] content = "{\n\n}" -> <<"{", "", "}">>
      [] content = "{\n  \"k\": 1" -> <<"{", "  \"k\": 1">>
      [] OTHER -> <<content>>

\* the comparison that leaves out the removed line of a replaced line
diffContentAddsOnly(oldContent, newContent) ==
    LET oldLines == SplitLines(oldContent)
        newLines == SplitLines(newContent)
        maxLen == IF Len(newLines) > Len(oldLines) THEN Len(newLines)
                  ELSE Len(oldLines)
        lineOf(lines, i) == IF i <= Len(lines) THEN lines[i] ELSE ""
        at(i) == IF lineOf(oldLines, i) = lineOf(newLines, i)
                 THEN <<[Type |-> "unchanged", LineNum |-> i,
                         Content |-> lineOf(newLines, i)]>>
                 ELSE IF lineOf(newLines, i) # ""
                 THEN <<[Type |-> "add", LineNum |-> i,
                         Content |-> lineOf(newLines, i)]>>
                 ELSE <<[Type |-> "remove", LineNum |-> i,
                         Content |-> lineOf(oldLines, i)]>>
        walk[n \in 0..maxLen] == IF n = 0 THEN <<>> ELSE walk[n - 1] \o at(n)
    IN  walk[maxLen]

\* diffContent
diffContent(oldContent, newContent) ==
    LET oldLines == SplitLines(oldContent)
        newLines == SplitLines(newContent)
        maxLen == IF Len(newLines) > Len(oldLines) THEN Len(newLines)
                  ELSE Len(oldLines)
        lineOf(lines, i) == IF i <= Len(lines) THEN lines[i] ELSE ""
        at(i) == IF lineOf(oldLines, i) = lineOf(newLines, i)
                 THEN <<[Type |-> "unchanged", LineNum |-> i,
                         Content |-> lineOf(newLines, i)]>>
                 ELSE (IF lineOf(oldLines, i) # ""
                       THEN <<[Type |-> "remove", LineNum |-> i,
                               Content |-> lineOf(oldLines, i)]>>
                       ELSE <<>>)
                      \o (IF lineOf(newLines, i) # ""
                          THEN <<[Type |-> "add", LineNum |-> i,
                                  Content |-> lineOf(newLines, i)]>>
                          ELSE <<>>)
        walk[n \in 0..maxLen] == IF n = 0 THEN <<>> ELSE walk[n - 1] \o at(n)
    IN  walk[maxLen]

\* parsed JSON values: null, a number, or an object of such values
JsonValues ==
    LET num(n) == [t |-> "num", n |-> n]
        obj(members) == [t |-> "obj", members |-> members]
    IN  {[t |-> "null"],
         obj([k \in {"k"} |-> num(1)]),
         obj([k \in {"k"} |-> num(2)]),
         obj([k \in {"j", "k"} |-> num(1)]),
         obj([k \in {"k"} |-> obj([j \in {"j"} |-> num(1)])]),
         obj([k \in {"k"} |-> obj([j \in {"j"} |-> num(2)])])}

\* DiffService.compareJSON: the differences, each with the path as the
\* sequence of its keys
RECURSIVE compareJSON(_, _, _)
compareJSON(path, oldVal, newVal) ==
    IF oldVal = newVal THEN {}
    ELSE IF oldVal.t # newVal.t
    THEN {[Path |-> path, Type |-> "modify",
           OldValue |-> oldVal, NewValue |-> newVal]}
    ELSE IF oldVal.t = "obj"
    THEN UNION {
             IF k \notin DOMAIN oldVal.members
             THEN {[Path |-> Append(path, k), Type |-> "add",
                    OldValue |-> [t |-> "null"], NewValue |-> newVal.members[k]]}
             ELSE IF k \notin DOMAIN newVal.members
             THEN {[Path |-> Append(path, k), Type |-> "remove",
                    OldValue |-> oldVal.members[k], NewValue |-> [t |-> "null"]]}
             ELSE compareJSON(Append(path, k), oldVal.members[k],
                              newVal.members[k]) :
             k \in DOMAIN oldVal.members \cup DOMAIN newVal.members}
    ELSE {[Path |-> path, Type |-> "modify",
           OldValue |-> oldVal, NewValue |-> newVal]}

InitDiff ==
    /\ \E a \in DiffContents, b \in DiffContents :
          /\ configs = [d \in Docs |->
                 IF d \in StoreDocs
                 THEN [exists |-> TRUE, FileType |-> "yaml", CurrentVersion |-> 2]
                 ELSE NoConfig]
          /\ versions = [d \in Docs |->
                 IF d \in StoreDocs
                 THEN <<[Version |-> 1, Content |-> a,
                         CommitHash |-> generateHash(a)],
                        [Version |-> 2, Content |-> b,
                         CommitHash |-> generateHash(b)]>>
                 ELSE <<>>]
    /\ releases = <<>>
    /\ subscribers = [p \in {} |-> <<>>]
    /\ pc = [p \in Procs |-> "idle"]
    /\ loc = [p \in Procs |-> NoLoc]
    /\ resp = [p \in Procs |-> NoResp]
    /\ faults = 0

\* VersionService.Diff
VersionDiff(p, d, fromV, toV) ==
    /\ pc[p] = "idle"
    /\ UNCHANGED <<configs, versions, releases, subscribers, faults>>
    /\ IF ~HasVersion(d, fromV) \/ ~HasVersion(d, toV)
       THEN Finish(p, Failed("diff", d, "ErrVersionNotFound"))
       ELSE Finish(p, [NoResp EXCEPT
                !.op = "diff", !.doc = d, !.status = "ok",
                !.content =
                    [FromVersion |-> fromV, ToVersion |-> toV,
                     Changes |-> diffContent(
                         GetByConfigAndVersion(d, fromV).Content,
                         GetByConfigAndVersion(d, toV).Content)]])

\* DiffService.DiffJSON on parsed values
DiffJSON(p, oldData, newData) ==
    /\ pc[p] = "idle"
    /\ UNCHANGED <<configs, versions, releases, subscribers, faults>>
    /\ Finish(p, [NoResp EXCEPT
           !.op = "diff_json", !.status = "ok",
           !.content = [Old |-> oldData, New |-> newData,
                        Diffs |-> compareJSON(<<>>, oldData, newData)]])

NextDiff ==
    \E p \in Procs :
        \/ \E d \in StoreDocs, fromV \in 1..MaxVersion, toV \in 1..MaxVersion :
               VersionDiff(p, d, fromV, toV)
        \/ \E oldData \in JsonValues, newData \in JsonValues :
               DiffJSON(p, oldData, newData)

SpecDiff == InitDiff /\ [][NextDiff]_vars

(***************************************************************************)
(* C24.  Diff(A, B) and Diff(B, A) are inverse: the same lines or paths,   *)
(* every add of one a remove of the same content in the other, unchanged   *)
(* lines the same, every modify with old and new values swapped.           *)
(***************************************************************************)
InvertLine(c) ==
    [c EXCEPT !.Type = CASE c.Type = "add" -> "remove"
                         [] c.Type = "remove" -> "add"
                         [] OTHER -> c.Type]

InvertJSON(c) ==
    [Path |-> c.Path,
     Type |-> CASE c.Type = "add" -> "remove"
                [] c.Type = "remove" -> "add"
                [] OTHER -> c.Type,
     OldValue |-> c.NewValue, NewValue |-> c.OldValue]

DiffIsInverse ==
    \A p \in Procs :
        /\ resp[p].op = "diff" /\ resp[p].status = "ok" =>
               LET r == resp[p].content
                   back == diffContent(
                       GetByConfigAndVersion(resp[p].doc, r.ToVersion).Content,
                       GetByConfigAndVersion(resp[p].doc, r.FromVersion).Content)
               IN  {InvertLine(c) : c \in Range(r.Changes)} = Range(back)
        /\ resp[p].op = "diff_json" =>
               LET r == resp[p].content
               IN  {InvertJSON(c) : c \in r.Diffs} =
                       compareJSON(<<>>, r.New, r.Old)

\* a diff with a replaced line, an added line and an unchanged line, and a
\* tree diff with a modified member
DiffWithEveryKind ==
    \E p \in Procs, q \in Procs :
        /\ resp[p].op = "diff" /\ resp[p].status = "ok"
        /\ \A type \in {"add", "remove", "unchanged"} :
               \E c \in Range(resp[p].content.Changes) : c.Type = type
        /\ \E c \in Range(resp[p].content.Changes),
              e \in Range(resp[p].content.Changes) :
                  c.LineNum = e.LineNum /\ c.Type = "remove" /\ e.Type = "add"
        /\ resp[q].op = "diff_json"
        /\ \E c \in resp[q].content.Diffs :
               c.Type = "modify" /\ Len(c.Path) = 2

(***************************************************************************)
(* Every way a version is appended, with watchers: PUT /api/v1/config,     *)
(* PUT /api/configs/:id and POST /api/configs/:id/rollback/:version on     *)
(* document 1, and Watch calls on it.                                      *)
(***************************************************************************)
NextPublish ==
    \E p \in Procs :
        \/ \E c \in WatchContents, via \in {"public", "admin"} :
               UpdateStart(p, 1, c, via)
        \/ UpdateRead(p)
        \/ UpdateInsert(p)
        \/ UpdateSave(p)
        \/ UpdateNotify(p)
        \/ \E n \in 1..MaxVersion : RollbackStart(p, 1, n)
        \/ RollbackTarget(p)
        \/ RollbackRead(p)
        \/ RollbackInsert(p)
        \/ RollbackSave(p)
        \/ \E known \in 0..MaxVersion : WatchRead(p, 1, known)
        \/ WatchCheck(p)
        \/ WatchSubscribe(p)
        \/ WatchReceive(p)
        \/ WatchReread(p)
        \/ WatchTimeout(p)
        \/ WatchDone(p)

SpecPublish == InitWatch /\ [][NextPublish]_vars

(***************************************************************************)
(* C25.  An update or rollback that has appended a version and returns     *)
(* success has published the change: at its return every subscriber whose  *)
(* channel has room is handed the document and its new version.            *)
(***************************************************************************)
AppendPublishes ==
    [][\A p \in Procs, d \in Docs, n \in 1..MaxVersion :
          (/\ pc[p] # "idle" /\ pc'[p] = "idle"
           /\ loc[p].op \in {"update", "rollback"}
           /\ resp'[p].status = "ok"
           /\ resp'[p].doc = d /\ resp'[p].version = n) =>
              \A q \in Subscribed :
                  Len(subscribers[q]) < ChannelCap =>
                      /\ q \in DOMAIN subscribers'
                      /\ subscribers'[q] =
                             Append(subscribers[q],
                                    [ConfigID |-> d, Version |-> n])]_vars

(***************************************************************************)
(* C26.  A release rollback that succeeds for release R creates a release  *)
(* whose version is that of the release made for the same configuration    *)
(* and environment immediately before R, whichever release R is.           *)
(***************************************************************************)
EarlierIDs(id) ==
    {i \in ReleaseIDs : /\ i < id
                        /\ releases[i].ConfigID = releases[id].ConfigID
                        /\ releases[i].Environment = releases[id].Environment}

RollbackRestoresPredecessor ==
    [][\A p \in Procs, id \in 1..MaxReleases :
          (/\ pc[p] = "rrb_create" /\ pc'[p] = "idle"
           /\ loc[p].rid = id
           /\ resp'[p].status = "ok") =>
              /\ EarlierIDs(id) # {}
              /\ resp'[p].version =
                     releases[CHOOSE i \in EarlierIDs(id) :
                                  \A j \in EarlierIDs(id) : j <= i].Version
              /\ releases'[id].Status = "rollback"
              /\ releases'[Len(releases')].Status = "released"
              /\ releases'[Len(releases')].ReleaseType = "full"
              /\ releases'[Len(releases')].Version = resp'[p].version]_vars


(***************************************************************************)
(* C27.  A Watch call never ends with the not-changed answer while the     *)
(* live version of the watched document is greater than the version the    *)
(* caller supplied.  The property is stated for the moments at which no    *)
(* write to the document is under way, so that every version counted has   *)
(* been appended and published in full.                                    *)
(***************************************************************************)
Writing(d) ==
    {q \in Procs : /\ loc[q].doc = d
                   /\ pc[q] \in {"upd_read", "upd_insert", "upd_save", "upd_notify"}}

NoStaleNotModified ==
    [][\A p \in Procs, d \in Docs, known \in 0..MaxVersion :
          (/\ pc[p] \in {"w_select", "w_reread"} /\ pc'[p] = "idle"
           /\ loc[p].doc = d /\ loc[p].ver = known
           /\ Writing(d) = {}
           /\ configs[d].CurrentVersion > known) =>
              resp'[p].status # "not_modified"]_vars


(***************************************************************************)
(* C28.  A read of a document that answers with a content reports, as the  *)
(* version number, the number of the version row the content was taken     *)
(* from, whatever writes to the document run beside it.                    *)
(***************************************************************************)
GetReportsContentVersion ==
    [][\A p \in Procs, d \in Docs :
          (/\ pc[p] = "get_ver" /\ pc'[p] = "idle"
           /\ loc[p].doc = d
           /\ resp'[p].status = "ok"
           /\ HasLatest(d)) =>
              /\ resp'[p].content = GetLatest(d).Content
              /\ resp'[p].version = GetLatest(d).Version]_vars


(***************************************************************************)
(* C29.  In every state of the release table, a release with status        *)
(* promoted is accompanied by a full release with status released for the  *)
(* same configuration, environment and version.                            *)
(***************************************************************************)
PromotedHasFullRelease ==
    \A i \in ReleaseIDs :
        releases[i].Status = "promoted" =>
            \E j \in ReleaseIDs :
                /\ releases[j].ConfigID = releases[i].ConfigID
                /\ releases[j].Environment = releases[i].Environment
                /\ releases[j].Version = releases[i].Version
                /\ releases[j].ReleaseType = "full"
                /\ releases[j].Status = "released"


(***************************************************************************)
(* C30.  A release rollback that ends with an error because there is       *)
(* nothing to fall back to has changed no release row: the target release  *)
(* has the status the call read it with.                                   *)
(***************************************************************************)
FailedRollbackChangesNothing ==
    [][\A p \in Procs, id \in 1..MaxReleases :
          (/\ pc[p] = "rrb_list" /\ pc'[p] = "idle"
           /\ loc[p].rid = id
           /\ resp'[p].status # "ok"
           /\ releases[id].Status = "rollback") =>
              /\ releases'[id].Status = loc[p].rel.Status
              /\ Len(releases') = Len(releases)]_vars

============================================================================
